---- MODULE Spec2Model ----
(***************************************************************************)
(* State machine of the chatform front end: MockForm (form, rule list,     *)
(* validation), the always-mounted ChatBot modal and its useChat hook.     *)
(*                                                                         *)
(* One action is one browser event (a click, a key stroke, the arrival of  *)
(* a fetch response) together with the React render and the effects that   *)
(* the event's state updates trigger.                                      *)
(***************************************************************************)
EXTENDS Naturals, Sequences, FiniteSets

VARIABLES
    formData,             \* MockForm: useState<ApplicationData>
    isSubmitting,         \* MockForm: useState(false)
    rules,                \* MockForm: useState<Rule[]>, keyed by rule id
    activeRedFlag,        \* MockForm: useState<RedFlag | null>
    validations,          \* number of /api/validate requests awaiting their response
    messages,             \* useChat: useState<ChatMessage[]>
    isLoading,            \* useChat: useState(false)
    error,                \* useChat: useState<string | null>
    isInitialized,        \* useChat: useState(false)
    messagesRef,          \* useChat: useRef<ChatMessage[]>
    isInitializedRef,     \* useChat: useRef(false)
    inflight,             \* /api/chat/message requests awaiting their response
    inputValue,           \* ChatBot: useState("")
    hasInitialized,       \* ChatBot: useRef(false)
    currentRedFlagRule,   \* ChatBot: useRef(redFlag.rule)
    conversationHistory,  \* ChatBot: useRef(new Map()), keyed by rule id
    crashed,              \* the React tree was unmounted by an uncaught error
    engineState,          \* resolution engine: the state of the flag's conversation
    engineTranscript,     \* resolution engine: the kinds of the transcript's entries
    toolRounds,           \* resolution engine: tool round-trips of the current turn
    engineOutcome,        \* resolution engine: how the last turn ended
    showChat,             \* PreScreeningSection: useState(false)
    sectionMessages,      \* PreScreeningSection: useState<ChatMessage[]>(data.chatHistory)
    sectionInputValue,    \* PreScreeningSection: useState("")
    sectionIsLoading,     \* PreScreeningSection: useState(false)
    sectionInflight,      \* /api/prescreening/chat requests awaiting their response
    preScreeningData      \* MockForm: useState<PreScreeningData>

\* MockForm's form and rule list, ChatBot and useChat
uiVars == <<formData, isSubmitting, rules, activeRedFlag, validations, messages,
            isLoading, error, isInitialized, messagesRef, isInitializedRef,
            inflight, inputValue, hasInitialized, currentRedFlagRule,
            conversationHistory, crashed>>

engineVars == <<engineState, engineTranscript, toolRounds, engineOutcome>>

sectionVars == <<showChat, sectionMessages, sectionInputValue, sectionIsLoading,
                 sectionInflight, preScreeningData>>

vars == <<uiVars, engineVars, sectionVars>>

formVars == <<formData, isSubmitting, rules, validations>>
hookVars == <<messages, isLoading, error, isInitialized, messagesRef,
              isInitializedRef, inflight>>
chatBotVars == <<inputValue, hasInitialized, currentRedFlagRule,
                 conversationHistory>>

-----------------------------------------------------------------------------
(* Bounds *)

\* A sendMessage is only issued while the transcript is shorter than this.
MaxMessages == 2
\* Chat requests that may await their response at the same time.
MaxInflight == 2
\* Validation requests that may await their response at the same time.
MaxValidations == 1
\* Turns (sendMessage calls) of one conversation of the resolution engine.
MaxTurns == 2
\* Messages the user sends in the pre-screening chat.
MaxSectionTurns == 2

-----------------------------------------------------------------------------
(* Values *)

\* Two of the five rule ids of the rule list.
RuleIds == {"employer_verification_check", "distance_check"}

\* The rule of the placeholder red flag that ChatBot gets while no flag is active.
NoRule == ""

\* activeRedFlag = null, rule.redFlag = undefined
NoFlag == [rule |-> "null"]

\* A red flag as the validation response issues it; its identity is its rule.
RedFlag(r) == [rule |-> r]

\* { rule: "", message: "", affectedFields: [] }
PlaceholderRedFlag == RedFlag(NoRule)

\* The string-valued form fields are represented by companyName.
Fields == {"companyName"}
FieldValues == {"", "SCB Bank"}

\* Texts are sequences of characters.
EmptyText == <<>>
InputTexts == {EmptyText, <<" ">>, <<"h", "i">>}

\* error = null
NoError == "null"

\* The ways a fetch of /api/chat/message fails.
FailKinds == {"http", "status", "timeout"}

\* data.content of a successful chat response
ReplyContent == <<"o", "k">>

RECURSIVE TrimStart(_)
TrimStart(s) ==
    IF s = <<>> THEN s
    ELSE IF Head(s) = " " THEN TrimStart(Tail(s)) ELSE s

RECURSIVE TrimEnd(_)
TrimEnd(s) ==
    IF s = <<>> THEN s
    ELSE IF s[Len(s)] = " " THEN TrimEnd(SubSeq(s, 1, Len(s) - 1)) ELSE s

\* String.prototype.trim
Trim(s) == TrimEnd(TrimStart(s))

\* Mutant of IsBlank: the text is compared without being trimmed.
IsBlankUntrimmed(s) == s = EmptyText

\* !text.trim()
IsBlank(s) == Trim(s) = EmptyText

\* A ChatMessage (its timestamp is not modelled).
ChatMessage(role, content) == [role |-> role, content |-> content]

RemoveAt(s, i) == SubSeq(s, 1, i - 1) \o SubSeq(s, i + 1, Len(s))

\* Array.prototype.slice(0, -1)
SliceDropLast(s) == SubSeq(s, 1, Len(s) - 1)

-----------------------------------------------------------------------------
(* MockForm *)

InitialFormData == [f \in Fields |-> ""]

InitialRules == [r \in RuleIds |-> [status |-> "pending", redFlag |-> NoFlag]]

\* isOpen={!!activeRedFlag}
isOpen == activeRedFlag # NoFlag

\* redFlag={stableRedFlag || activeRedFlag || placeholder}
RedFlagProp(flag) == IF flag = NoFlag THEN PlaceholderRedFlag ELSE flag

\* Mutant of RulesAfterValidation: a rule without a red flag keeps its entry.
RulesAfterValidationMerged(flags) ==
    [r \in RuleIds |->
        IF r \in flags
        THEN [status |-> "fail", redFlag |-> RedFlag(r)]
        ELSE rules[r]]

\* The rule list after a successful validation response with red flags for `flags`.
RulesAfterValidation(flags) ==
    [r \in RuleIds |->
        IF r \in flags
        THEN [status |-> "fail", redFlag |-> RedFlag(r)]
        ELSE [status |-> "pass", redFlag |-> NoFlag]]

-----------------------------------------------------------------------------
(* useChat: what the memoized callbacks captured.  initializeChat and       *)
(* sendMessage are useCallback(..., [API_URL]); API_URL never changes, so   *)
(* both keep the closure of the first render of the hook.                   *)

\* redFlag of the first render: activeRedFlag is null at mount.
closureRedFlag == PlaceholderRedFlag

\* applicationData of the first render: the initial formData.
closureApplicationData == InitialFormData

\* isLoading of the first render: useState(false).
closureIsLoading == FALSE

\* A chat request awaiting its response: which callback issued it, and its body.
\* conv is a history field, not part of the body: the rule of the conversation
\* that was open when the request was issued.
ChatRequest(kind, conv, message, history) ==
    [kind |-> kind,
     conv |-> conv,
     message |-> message,
     redFlag |-> closureRedFlag,
     applicationData |-> closureApplicationData,
     conversationHistory |-> history]

\* Mutant of InitErrorMessage: the failure is not recorded.
InitErrorMessageLost(kind) == NoError

\* catch (err): the message recorded by setError
InitErrorMessage(kind) ==
    CASE kind = "http" -> "API error"
      [] kind = "status" -> "Failed to initialize chat"
      [] OTHER -> "The operation timed out"

SendErrorMessage(kind) ==
    CASE kind = "http" -> "API error"
      [] kind = "status" -> "Failed to send message"
      [] OTHER -> "The operation timed out"

-----------------------------------------------------------------------------
(* useChat: the pieces of initializeChat, sendMessage and reset *)

\* if (isInitializedRef.current) return;
initializeChatReturnsEarly(ref) == ref

\* message: "", conversationHistory: []
BootstrapRequest(conv) == ChatRequest("init", conv, EmptyText, <<>>)

\* Mutant of MessagesAfterInitSuccess: the first message is appended.
MessagesAfterInitSuccessAppended(prev, assistantMessage) == Append(prev, assistantMessage)

\* setMessages([assistantMessage])
MessagesAfterInitSuccess(prev, assistantMessage) == <<assistantMessage>>

\* if (!userMessage.trim() || isLoading) return;   (isLoading is the closure's)
sendMessageReturnsEarly(userMessage) == IsBlank(userMessage) \/ closureIsLoading

\* setMessages((prev) => [...prev, newUserMessage])
MessagesAfterUserMessage(prev, newUserMessage) == Append(prev, newUserMessage)

\* Mutant of SendHistory: the new user message is left out of the payload.
SendHistoryWithoutNew(currentMessages, newUserMessage) == currentMessages

\* conversationHistory: [...currentMessages, newUserMessage]
SendHistory(currentMessages, newUserMessage) == Append(currentMessages, newUserMessage)

\* Mutant of MessagesAfterSendSuccess: a reply for a closed view is discarded.
MessagesAfterSendSuccessWhileOpen(prev, assistantMessage) ==
    IF isOpen THEN Append(prev, assistantMessage) ELSE prev

\* setMessages((prev) => [...prev, assistantMessage])
MessagesAfterSendSuccess(prev, assistantMessage) == Append(prev, assistantMessage)

\* setMessages((prev) => prev.slice(0, -1))
MessagesAfterSendFailure(prev) == SliceDropLast(prev)

\* Mutant of IsLoadingAfterCompletion: the loading flag is not cleared.
IsLoadingLeftSet == TRUE

\* finally { setIsLoading(false) }
IsLoadingAfterCompletion == FALSE

\* reset(): setMessages([]); messagesRef.current = []
MessagesAfterReset == <<>>

\* Mutant of IsInitializedRefAfterReset: the ref is left as it was.
IsInitializedRefKept(ref) == ref

\* reset(): isInitializedRef.current = false
IsInitializedRefAfterReset(ref) == FALSE

-----------------------------------------------------------------------------
(* ChatBot: the conditions of its effects and handlers *)

\* redFlag.rule && currentRedFlagRule.current && redFlag.rule !== currentRedFlagRule.current
IsSwitch(rule, current) == rule # NoRule /\ current # NoRule /\ rule # current

\* if (currentRedFlagRule.current && messages.length > 0) conversationHistory.set(...)
HistoryAfterSave(history, current, msgs) ==
    IF current # NoRule /\ Len(msgs) > 0
    THEN [history EXCEPT ![current] = msgs]
    ELSE history

\* if (savedConversation && savedConversation.length > 0)
HasSavedConversation(history, rule) == Len(history[rule]) > 0

\* if (isOpen && !hasInitialized.current)
InitEffectCalls(open, initialized) == open /\ ~initialized

\* if (!inputValue.trim() || isLoading) return;
handleSendMessageReturnsEarly == IsBlank(inputValue) \/ isLoading

\* setInputValue("") after await sendMessage(inputValue)
InputAfterSend(text) == EmptyText

\* handleClose: a blank input closes at once, otherwise confirm() decides
CloseProceeds(confirmed) == IsBlank(inputValue) \/ confirmed

-----------------------------------------------------------------------------
(* The resolution engine behind /api/chat/message: the state machine of one    *)
(* flag's conversation and the tool round-trips of a turn.                     *)

\* The fixed maximum of tool round-trips in one turn.
MaxToolRounds == 3

\* ResolutionAction: the terminal output of a turn
AskMore == [type |-> "ask_more"]
Update(field, value) == [type |-> "update", field |-> field, value |-> value]
Justify(field) == [type |-> "justify", field |-> field]

ResolutionActions ==
    {AskMore}
        \cup {Update(f, v) : f \in Fields, v \in FieldValues}
        \cup {Justify(f) : f \in Fields}

NoOutcome == [type |-> "none", fallback |-> FALSE]

\* The action a turn ended with; fallback: the engine's own generic question.
Outcome(type, fallback) == [type |-> type, fallback |-> fallback]

\* Model output that does not match the structured schema.
Malformed == [type |-> "malformed"]

ModelOutputs == ResolutionActions \cup {Malformed}

\* The number of user entries of the transcript: the turns so far.
RECURSIVE Turns(_)
Turns(t) ==
    IF t = <<>> THEN 0
    ELSE Turns(SubSeq(t, 1, Len(t) - 1)) + (IF t[Len(t)] = "user" THEN 1 ELSE 0)

\* The tool-result notes appended since the last user entry.
RECURSIVE ToolNotesOfTurn(_)
ToolNotesOfTurn(t) ==
    IF t = <<>> \/ t[Len(t)] = "user" THEN 0
    ELSE ToolNotesOfTurn(SubSeq(t, 1, Len(t) - 1))
            + (IF t[Len(t)] \in {"tool_ok", "tool_failed"} THEN 1 ELSE 0)

\* Mutant of ToolRoundAllowed: the bound is tested one round too late.
ToolRoundAllowedOnceMore(rounds) == rounds <= MaxToolRounds

\* A further tool round-trip is within the bound.
ToolRoundAllowed(rounds) == rounds < MaxToolRounds

\* execute(toolName, arguments): a failure of the handler is wrapped into
\* ToolResult{success: false}; either way a note is appended.
ToolNote(success) == IF success THEN "tool_ok" ELSE "tool_failed"

\* Update and Justify resolve the flag; AskMore and malformed output go on.
StateAfterAnswer(output) ==
    IF output.type \in {"update", "justify"} THEN "Resolved" ELSE "AwaitingUserReply"

\* Malformed output is treated as AskMore with a generic question.
OutcomeOfAnswer(output) ==
    IF output.type = "malformed"
    THEN Outcome("ask_more", TRUE)
    ELSE Outcome(output.type, FALSE)

-----------------------------------------------------------------------------
(* Pre-screening: MockForm's preScreeningData and PreScreeningSection *)

\* { answered: false, response: null, explanation: "", chatHistory: [] }
InitialPreScreeningData ==
    [answered |-> FALSE, response |-> "null", explanation |-> EmptyText,
     chatHistory |-> <<>>]

\* What the user may type into the section's input.
SectionInputTexts == {EmptyText, <<" ">>, <<"a">>, <<"b", " ">>}

\* The content of the section's first assistant message.
FirstQuestionContent == <<"q">>

\* "Sorry, I encountered an error. Please try again."
SectionErrorContent == <<"e">>

\* messages.filter((m) => m.role === "user")
IsUserRole(m) == m.role = "user"

\* .map((m) => m.content)
ContentsOf(msgs) == [k \in 1..Len(msgs) |-> msgs[k].content]

\* Array.prototype.join(separator)
RECURSIVE Join(_, _)
Join(texts, separator) ==
    IF texts = <<>> THEN EmptyText
    ELSE IF Len(texts) = 1 THEN texts[1]
    ELSE texts[1] \o separator \o Join(Tail(texts), separator)

UserMessagesTextOfAll(msgs) == Join(ContentsOf(msgs), <<" ">>)

\* updatedMessages.filter(...).map(...).join(" ")
UserMessagesText(msgs) == Join(ContentsOf(SelectSeq(msgs, IsUserRole)), <<" ">>)

\* handlePreScreeningChatComplete: the value given to setPreScreeningData
handlePreScreeningChatComplete(explanation, chatHistory) ==
    [answered |-> TRUE, response |-> "yes", explanation |-> explanation,
     chatHistory |-> chatHistory]

\* The body of /api/validate has preScreening: null while nothing was answered.
NoPreScreening == [preScreening |-> "null"]

\* handleSubmit: preScreening: preScreeningData.answered ? {...} : null
PreScreeningPayload(data) ==
    IF data.answered
    THEN [response |-> data.response, explanation |-> data.explanation,
          chatHistory |-> data.chatHistory]
    ELSE NoPreScreening

\* The number of user messages of a transcript.
UserTurns(msgs) == Len(SelectSeq(msgs, IsUserRole))

\* Mutant of MessagesAfterYesClick: the chat is shown without its question.
MessagesAfterYesClickUnasked(prev) == prev

\* if (messages.length === 0) setMessages([{ role: "assistant", ... }])
MessagesAfterYesClick(prev) ==
    IF Len(prev) = 0
    THEN <<ChatMessage("assistant", FirstQuestionContent)>>
    ELSE prev

\* handleYesClick: the chat is shown, and given its first message if empty
handleYesClick ==
    /\ ~showChat
    /\ showChat' = TRUE
    /\ sectionMessages' = MessagesAfterYesClick(sectionMessages)
    /\ UNCHANGED <<sectionInputValue, sectionIsLoading, sectionInflight,
                   preScreeningData>>
    /\ UNCHANGED <<uiVars, engineVars>>

\* handlePreScreeningResponse, as the section's No button calls it; the other
\* branch only opens the modal and is called by nothing.
handlePreScreeningResponse(response) ==
    /\ ~showChat
    /\ response = "no"
    /\ preScreeningData' =
           [answered |-> TRUE, response |-> "no", explanation |-> EmptyText,
            chatHistory |-> <<>>]
    /\ UNCHANGED <<showChat, sectionMessages, sectionInputValue,
                   sectionIsLoading, sectionInflight>>
    /\ UNCHANGED <<uiVars, engineVars>>

\* onChange of the section's input, which is disabled while loading
sectionSetInputValue(text) ==
    /\ showChat
    /\ ~sectionIsLoading
    /\ text # sectionInputValue
    /\ sectionInputValue' = text
    /\ UNCHANGED <<showChat, sectionMessages, sectionIsLoading, sectionInflight,
                   preScreeningData>>
    /\ UNCHANGED <<uiVars, engineVars>>

\* handleSend up to its fetch: the request keeps the messages and the
\* userMessage of the render that issued it.
handleSend ==
    /\ showChat
    /\ ~(IsBlank(sectionInputValue) \/ sectionIsLoading)
    /\ UserTurns(sectionMessages) < MaxSectionTurns
    /\ sectionMessages' =
           Append(sectionMessages, ChatMessage("user", sectionInputValue))
    /\ sectionInputValue' = EmptyText
    /\ sectionIsLoading' = TRUE
    /\ sectionInflight' =
           Append(sectionInflight,
                  [message |-> sectionInputValue,
                   conversationHistory |-> sectionMessages])
    /\ UNCHANGED <<showChat, preScreeningData>>
    /\ UNCHANGED <<uiVars, engineVars>>

\* handleSend after a successful response: the reply is appended and the
\* conversation saved through onChatComplete.
handleSendSucceeds(i) ==
    /\ i \in 1..Len(sectionInflight)
    /\ LET request == sectionInflight[i]
           userMessage == ChatMessage("user", request.message)
           assistantMessage == ChatMessage("assistant", ReplyContent)
           updatedMessages ==
               request.conversationHistory \o <<userMessage, assistantMessage>>
       IN  /\ sectionMessages' = Append(sectionMessages, assistantMessage)
           /\ preScreeningData' =
                  handlePreScreeningChatComplete(
                      UserMessagesText(updatedMessages), updatedMessages)
    /\ sectionIsLoading' = FALSE
    /\ sectionInflight' = RemoveAt(sectionInflight, i)
    /\ UNCHANGED <<showChat, sectionInputValue>>
    /\ UNCHANGED <<uiVars, engineVars>>

\* Mutant of SectionMessagesAfterFailure: the user's message is rolled back.
SectionMessagesAfterFailureRolledBack(prev) ==
    Append(SliceDropLast(prev), ChatMessage("assistant", SectionErrorContent))

\* catch: setMessages((prev) => [...prev, errorMessage])
SectionMessagesAfterFailure(prev) ==
    Append(prev, ChatMessage("assistant", SectionErrorContent))

\* handleSend after a failed fetch: the error message is appended, nothing
\* is saved.
handleSendFails(i) ==
    /\ i \in 1..Len(sectionInflight)
    /\ sectionMessages' = SectionMessagesAfterFailure(sectionMessages)
    /\ sectionIsLoading' = FALSE
    /\ sectionInflight' = RemoveAt(sectionInflight, i)
    /\ UNCHANGED <<showChat, sectionInputValue, preScreeningData>>
    /\ UNCHANGED <<uiVars, engineVars>>

-----------------------------------------------------------------------------
Init ==
    /\ formData = InitialFormData
    /\ isSubmitting = FALSE
    /\ rules = InitialRules
    /\ activeRedFlag = NoFlag
    /\ validations = 0
    /\ messages = <<>>
    /\ isLoading = FALSE
    /\ error = NoError
    /\ isInitialized = FALSE
    /\ messagesRef = <<>>
    /\ isInitializedRef = FALSE
    /\ inflight = <<>>
    /\ inputValue = EmptyText
    /\ hasInitialized = FALSE
    /\ currentRedFlagRule = NoRule
    /\ conversationHistory = [r \in RuleIds |-> <<>>]
    /\ crashed = FALSE
    /\ engineState = "Uninitialized"
    /\ engineTranscript = <<>>
    /\ toolRounds = 0
    /\ engineOutcome = NoOutcome
    /\ showChat = FALSE
    /\ sectionMessages = InitialPreScreeningData.chatHistory
    /\ sectionInputValue = EmptyText
    /\ sectionIsLoading = FALSE
    /\ sectionInflight = <<>>
    /\ preScreeningData = InitialPreScreeningData

-----------------------------------------------------------------------------
(* MockForm handlers *)

\* handleChange: one field gets the typed value
handleChange(name, value) ==
    /\ ~crashed
    /\ UNCHANGED <<engineVars, sectionVars>>
    /\ formData[name] # value
    /\ formData' = [formData EXCEPT ![name] = value]
    /\ UNCHANGED <<isSubmitting, rules, validations, activeRedFlag, crashed>>
    /\ UNCHANGED hookVars
    /\ UNCHANGED chatBotVars

\* handleSubmit up to its await: setIsSubmitting(true), fetch /api/validate
SubmitStarts ==
    /\ validations < MaxValidations
    /\ isSubmitting' = TRUE
    /\ validations' = validations + 1

\* The Submit Application button (disabled while isSubmitting)
handleSubmit ==
    /\ ~crashed
    /\ UNCHANGED <<engineVars, sectionVars>>
    /\ ~isSubmitting
    /\ SubmitStarts
    /\ UNCHANGED <<formData, rules, activeRedFlag, crashed>>
    /\ UNCHANGED hookVars
    /\ UNCHANGED chatBotVars

\* handleSubmit after its await, response.ok: setRules(...), setIsSubmitting(false)
ValidationSucceeds(flags) ==
    /\ ~crashed
    /\ UNCHANGED <<engineVars, sectionVars>>
    /\ validations > 0
    /\ validations' = validations - 1
    /\ rules' = RulesAfterValidation(flags)
    /\ isSubmitting' = FALSE
    /\ UNCHANGED <<formData, activeRedFlag, crashed>>
    /\ UNCHANGED hookVars
    /\ UNCHANGED chatBotVars

\* handleSubmit after its await, fetch rejected or !response.ok: alert, finally
ValidationFails ==
    /\ ~crashed
    /\ UNCHANGED <<engineVars, sectionVars>>
    /\ validations > 0
    /\ validations' = validations - 1
    /\ isSubmitting' = FALSE
    /\ UNCHANGED <<formData, rules, activeRedFlag, crashed>>
    /\ UNCHANGED hookVars
    /\ UNCHANGED chatBotVars

-----------------------------------------------------------------------------
(* The Fix It button of a failing rule: onClick sets activeRedFlag; MockForm  *)
(* and ChatBot render; ChatBot's save/restore effect and initialize effect    *)
(* run; the button has no type attribute and stands inside the form, so the   *)
(* click also submits the form.                                               *)

FixIt(r) ==
    LET rendered == RedFlagProp(activeRedFlag).rule
        wasOpen == isOpen
        \* the save/restore effect has redFlag.rule among its dependencies
        switch == r # rendered /\ IsSwitch(r, currentRedFlagRule)
        saved == IF switch
                 THEN HistoryAfterSave(conversationHistory, currentRedFlagRule, messages)
                 ELSE conversationHistory
        \* restoreMessages is not among the values useChat returns: calling it throws
        throws == switch /\ HasSavedConversation(saved, r)
        resets == switch /\ ~throws
        initialized == IF resets THEN FALSE ELSE hasInitialized
        ref == IF resets
               THEN IsInitializedRefAfterReset(isInitializedRef)
               ELSE isInitializedRef
        \* the initialize effect has only isOpen among its dependencies
        calls == ~wasOpen /\ InitEffectCalls(TRUE, initialized)
        issues == calls /\ ~initializeChatReturnsEarly(ref)
    IN  /\ ~crashed
        /\ UNCHANGED <<engineVars, sectionVars>>
        /\ rules[r].status = "fail"
        /\ rules[r].redFlag # NoFlag
        /\ conversationHistory' = saved
        /\ IF throws
           THEN /\ crashed' = TRUE
                /\ UNCHANGED <<formData, isSubmitting, rules, validations,
                               activeRedFlag, inputValue, hasInitialized,
                               currentRedFlagRule>>
                /\ UNCHANGED hookVars
           ELSE /\ issues => Len(inflight) < MaxInflight
                /\ SubmitStarts
                /\ activeRedFlag' = rules[r].redFlag
                /\ currentRedFlagRule' = r
                /\ hasInitialized' = (calls \/ initialized)
                /\ messages' = IF resets THEN MessagesAfterReset ELSE messages
                /\ messagesRef' = messages'
                /\ isInitialized' = IF resets THEN FALSE ELSE isInitialized
                /\ isInitializedRef' = ref
                /\ isLoading' = IF issues THEN TRUE
                                ELSE IF resets THEN FALSE ELSE isLoading
                /\ error' = IF issues \/ resets THEN NoError ELSE error
                /\ inflight' = IF issues
                               THEN Append(inflight, BootstrapRequest(r))
                               ELSE inflight
                /\ UNCHANGED <<formData, rules, inputValue, crashed>>

\* The X button of the modal.  It has no type attribute either: when the modal
\* stays (confirm declined) the click submits the form; when the click handler
\* removes the modal, whether the browser still submits depends on when React
\* detaches the button, so both outcomes are kept.
handleClose(confirmed, submits) ==
    /\ ~crashed
    /\ UNCHANGED <<engineVars, sectionVars>>
    /\ isOpen
    /\ IsBlank(inputValue) => confirmed
    /\ ~CloseProceeds(confirmed) => submits
    /\ activeRedFlag' = IF CloseProceeds(confirmed) THEN NoFlag ELSE activeRedFlag
    /\ IF submits
       THEN SubmitStarts
       ELSE UNCHANGED <<isSubmitting, validations>>
    /\ UNCHANGED <<formData, rules, crashed>>
    /\ UNCHANGED hookVars
    /\ UNCHANGED chatBotVars

\* onChange of the chat input (disabled while isLoading)
setInputValue(text) ==
    /\ ~crashed
    /\ UNCHANGED <<engineVars, sectionVars>>
    /\ isOpen
    /\ ~isLoading
    /\ text # inputValue
    /\ inputValue' = text
    /\ UNCHANGED <<activeRedFlag, hasInitialized, currentRedFlagRule,
                   conversationHistory, crashed>>
    /\ UNCHANGED formVars
    /\ UNCHANGED hookVars

\* Enter in the chat input or the Send button: handleSendMessage, and
\* sendMessage up to its await
handleSendMessage ==
    LET newUserMessage == ChatMessage("user", inputValue)
        currentMessages == messagesRef
    IN  /\ ~crashed
        /\ UNCHANGED <<engineVars, sectionVars>>
        /\ isOpen
        /\ IF handleSendMessageReturnsEarly
           THEN /\ UNCHANGED <<inputValue>>
                /\ UNCHANGED hookVars
           ELSE IF sendMessageReturnsEarly(inputValue)
           THEN /\ inputValue' = InputAfterSend(inputValue)
                /\ UNCHANGED hookVars
           ELSE /\ Len(messages) < MaxMessages
                /\ Len(inflight) < MaxInflight
                /\ isLoading' = TRUE
                /\ error' = NoError
                /\ messages' = MessagesAfterUserMessage(messages, newUserMessage)
                /\ messagesRef' = messages'
                /\ inflight' = Append(inflight,
                        ChatRequest("send", currentRedFlagRule, inputValue,
                                    SendHistory(currentMessages, newUserMessage)))
                /\ UNCHANGED <<inputValue, isInitialized, isInitializedRef>>
        /\ UNCHANGED <<activeRedFlag, hasInitialized, currentRedFlagRule,
                       conversationHistory, crashed>>
        /\ UNCHANGED formVars

-----------------------------------------------------------------------------
(* The outcome of a turn.  The resolution engine behind /api/chat/message     *)
(* ends a turn with one action; the response handler of sendMessage reads     *)
(* data.status, data.error and data.content of the response and nothing else. *)

\* Mutant of FormDataAfterTurn: an update is written to the field.
FormDataAfterTurnApplied(data, action) ==
    IF action.type = "update"
    THEN [data EXCEPT ![action.field] = action.value]
    ELSE data

\* The form data after the response of a turn: the handler has no setter of the
\* applicationData it was given and does not read the action.
FormDataAfterTurn(data, action) == data

-----------------------------------------------------------------------------
(* The continuations of the chat requests *)

\* initializeChat after its await: response.ok and data.status = "success"
InitSucceeds(i) ==
    LET q == inflight[i]
        assistantMessage == ChatMessage("assistant", ReplyContent)
    IN  /\ ~crashed
        /\ UNCHANGED <<engineVars, sectionVars>>
        /\ q.kind = "init"
        /\ inflight' = RemoveAt(inflight, i)
        /\ messages' = MessagesAfterInitSuccess(messages, assistantMessage)
        /\ messagesRef' = messages'
        /\ isInitialized' = TRUE
        /\ isInitializedRef' = TRUE
        /\ isLoading' = IsLoadingAfterCompletion
        /\ UNCHANGED <<error, activeRedFlag, crashed>>
        /\ UNCHANGED formVars
        /\ UNCHANGED chatBotVars

\* initializeChat after its await: fetch rejected, !response.ok or status "error"
InitFails(i, kind) ==
    LET q == inflight[i]
    IN  /\ ~crashed
        /\ UNCHANGED <<engineVars, sectionVars>>
        /\ q.kind = "init"
        /\ inflight' = RemoveAt(inflight, i)
        /\ error' = InitErrorMessage(kind)
        /\ isLoading' = IsLoadingAfterCompletion
        /\ UNCHANGED <<messages, messagesRef, isInitialized, isInitializedRef,
                       activeRedFlag, crashed>>
        /\ UNCHANGED formVars
        /\ UNCHANGED chatBotVars

\* sendMessage after its await, success, the turn having ended with `action`;
\* then handleSendMessage's setInputValue("")
SendSucceedsWith(i, action) ==
    LET q == inflight[i]
        assistantMessage == ChatMessage("assistant", ReplyContent)
    IN  /\ ~crashed
        /\ UNCHANGED <<engineVars, sectionVars>>
        /\ q.kind = "send"
        /\ inflight' = RemoveAt(inflight, i)
        /\ messages' = MessagesAfterSendSuccess(messages, assistantMessage)
        /\ messagesRef' = messages'
        /\ isLoading' = IsLoadingAfterCompletion
        /\ inputValue' = InputAfterSend(inputValue)
        /\ formData' = FormDataAfterTurn(formData, action)
        /\ UNCHANGED <<error, isInitialized, isInitializedRef, activeRedFlag,
                       hasInitialized, currentRedFlagRule, conversationHistory,
                       crashed>>
        /\ UNCHANGED <<isSubmitting, rules, validations>>

SendSucceeds(i) == \E action \in ResolutionActions : SendSucceedsWith(i, action)

\* sendMessage after its await, failure; then handleSendMessage's setInputValue("")
SendFails(i, kind) ==
    LET q == inflight[i]
    IN  /\ ~crashed
        /\ UNCHANGED <<engineVars, sectionVars>>
        /\ q.kind = "send"
        /\ inflight' = RemoveAt(inflight, i)
        /\ error' = SendErrorMessage(kind)
        /\ messages' = MessagesAfterSendFailure(messages)
        /\ messagesRef' = messages'
        /\ isLoading' = IsLoadingAfterCompletion
        /\ inputValue' = InputAfterSend(inputValue)
        /\ UNCHANGED <<isInitialized, isInitializedRef, activeRedFlag,
                       hasInitialized, currentRedFlagRule, conversationHistory,
                       crashed>>
        /\ UNCHANGED formVars

-----------------------------------------------------------------------------
Next ==
    \/ \E name \in Fields, value \in FieldValues : handleChange(name, value)
    \/ handleSubmit
    \/ \E flags \in SUBSET RuleIds : ValidationSucceeds(flags)
    \/ ValidationFails
    \/ \E r \in RuleIds : FixIt(r)
    \/ \E confirmed \in BOOLEAN, submits \in BOOLEAN : handleClose(confirmed, submits)
    \/ \E text \in InputTexts : setInputValue(text)
    \/ handleSendMessage
    \/ \E i \in 1..Len(inflight) : InitSucceeds(i)
    \/ \E i \in 1..Len(inflight), kind \in FailKinds : InitFails(i, kind)
    \/ \E i \in 1..Len(inflight) : SendSucceeds(i)
    \/ \E i \in 1..Len(inflight), kind \in FailKinds : SendFails(i, kind)

Spec == Init /\ [][Next]_vars

\* Fix It clicked with the pointer: the modal's backdrop (fixed inset-0) covers
\* the rule list while the view is open, so the click only happens while closed.
FixItByPointer(r) == ~isOpen /\ FixIt(r)

\* The events of a user who only uses the pointer: as Next, without the
\* activation of a Fix It button from the keyboard while the modal is open.
PointerNext ==
    \/ \E name \in Fields, value \in FieldValues : handleChange(name, value)
    \/ handleSubmit
    \/ \E flags \in SUBSET RuleIds : ValidationSucceeds(flags)
    \/ ValidationFails
    \/ \E r \in RuleIds : FixItByPointer(r)
    \/ \E confirmed \in BOOLEAN, submits \in BOOLEAN : handleClose(confirmed, submits)
    \/ \E text \in InputTexts : setInputValue(text)
    \/ handleSendMessage
    \/ \E i \in 1..Len(inflight) : InitSucceeds(i)
    \/ \E i \in 1..Len(inflight), kind \in FailKinds : InitFails(i, kind)
    \/ \E i \in 1..Len(inflight) : SendSucceeds(i)
    \/ \E i \in 1..Len(inflight), kind \in FailKinds : SendFails(i, kind)

PointerSpec == Init /\ [][PointerNext]_vars

-----------------------------------------------------------------------------
(* The resolution engine: one flag's conversation *)

\* initialize(redFlag, applicationSnapshot): the bootstrap turn; on failure the
\* state remains Uninitialized and no transcript is kept.
engineInitialize(ok) ==
    /\ engineState = "Uninitialized"
    /\ engineState' = IF ok THEN "AwaitingUserReply" ELSE "Uninitialized"
    /\ engineTranscript' = IF ok THEN <<"assistant">> ELSE <<>>
    /\ UNCHANGED <<toolRounds, engineOutcome>>
    /\ UNCHANGED <<uiVars, sectionVars>>

\* sendMessage(userText): the user message is appended, the model is invoked.
engineSendMessage ==
    /\ engineState = "AwaitingUserReply"
    /\ Turns(engineTranscript) < MaxTurns
    /\ engineState' = "ProcessingReply"
    /\ engineTranscript' = Append(engineTranscript, "user")
    /\ toolRounds' = 0
    /\ engineOutcome' = NoOutcome
    /\ UNCHANGED <<uiVars, sectionVars>>

\* The model requests a tool call.  Within the bound the tool is executed, its
\* result note appended and the model invoked again; beyond it the turn ends
\* with the AskMore fallback.
ModelRequestsTool(success) ==
    /\ engineState = "ProcessingReply"
    /\ IF ToolRoundAllowed(toolRounds)
       THEN /\ engineTranscript' = Append(engineTranscript, ToolNote(success))
            /\ toolRounds' = toolRounds + 1
            /\ UNCHANGED <<engineState, engineOutcome>>
       ELSE /\ engineTranscript' = Append(engineTranscript, "assistant")
            /\ engineState' = "AwaitingUserReply"
            /\ engineOutcome' = Outcome("ask_more", TRUE)
            /\ UNCHANGED toolRounds
    /\ UNCHANGED <<uiVars, sectionVars>>

\* The model gives a response that is not a tool call: the action is parsed
\* and the assistant's message appended.
ModelAnswers(output) ==
    /\ engineState = "ProcessingReply"
    /\ engineTranscript' = Append(engineTranscript, "assistant")
    /\ engineState' = StateAfterAnswer(output)
    /\ engineOutcome' = OutcomeOfAnswer(output)
    /\ UNCHANGED toolRounds
    /\ UNCHANGED <<uiVars, sectionVars>>

\* Network or timeout error of the model call: the state does not advance and
\* the user's message stays.
ModelCallFails ==
    /\ engineState = "ProcessingReply"
    /\ engineState' = "AwaitingUserReply"
    /\ engineOutcome' = Outcome("error", FALSE)
    /\ UNCHANGED <<engineTranscript, toolRounds>>
    /\ UNCHANGED <<uiVars, sectionVars>>

EngineNext ==
    \/ \E ok \in BOOLEAN : engineInitialize(ok)
    \/ engineSendMessage
    \/ \E success \in BOOLEAN : ModelRequestsTool(success)
    \/ \E output \in ModelOutputs : ModelAnswers(output)
    \/ ModelCallFails

EngineSpec == Init /\ [][EngineNext]_vars

\* The pre-screening section of the form, and the form's submission
PreScreeningNext ==
    \/ handleYesClick
    \/ handlePreScreeningResponse("no")
    \/ \E text \in SectionInputTexts : sectionSetInputValue(text)
    \/ handleSend
    \/ \E i \in 1..Len(sectionInflight) : handleSendSucceeds(i)
    \/ \E i \in 1..Len(sectionInflight) : handleSendFails(i)
    \/ handleSubmit
    \/ \E flags \in SUBSET RuleIds : ValidationSucceeds(flags)
    \/ ValidationFails

PreScreeningSpec == Init /\ [][PreScreeningNext]_vars

-----------------------------------------------------------------------------
(* Steps, as seen from the state before and after *)

\* A chat request was issued in this step; it is the last of inflight'.
RequestIssued == Len(inflight') = Len(inflight) + 1

NewRequest == inflight'[Len(inflight')]

\* The step opens the view: Fix It while no flag was active.
Opens == ~isOpen /\ isOpen' /\ ~crashed'

\* The step opens the view on the rule it was last open on.
ReopensSameFlag == Opens /\ currentRedFlagRule' = currentRedFlagRule

\* sendMessage ran past its guards in this step.
SendMessageAccepted == handleSendMessage /\ RequestIssued

\* The transcript before the turn of send request q: its history without the
\* user message of the turn.
TranscriptBefore(q) == SliceDropLast(q.conversationHistory)

\* Nothing but the turn of q itself changed the transcript since q was issued.
Undisturbed(q) == messages = q.conversationHistory

IsUserMessage(m, text) == m.role = "user" /\ m.content = text

IsAssistantMessage(m) == m.role = "assistant"

-----------------------------------------------------------------------------
(* C1: a sendMessage turn that nothing else interferes with grows the          *)
(* transcript by exactly 2 when it succeeds (the user message, then the        *)
(* assistant reply) and by exactly 1 when its request fails: the user message  *)
(* is retained and no assistant reply is appended.                             *)
C1_TurnLength ==
    [][\A i \in 1..Len(inflight) :
          LET q == inflight[i]
              before == TranscriptBefore(q)
          IN  (q.kind = "send" /\ Undisturbed(q)) =>
                /\ SendSucceeds(i) =>
                      /\ Len(messages') = Len(before) + 2
                      /\ IsUserMessage(messages'[Len(before) + 1], q.message)
                      /\ IsAssistantMessage(messages'[Len(messages')])
                /\ \A kind \in FailKinds :
                      SendFails(i, kind) =>
                        /\ Len(messages') = Len(before) + 1
                        /\ IsUserMessage(messages'[Len(messages')], q.message)]_vars

-----------------------------------------------------------------------------
\* Request i got its response (of either kind) in this step.
Completes(i) ==
    \/ InitSucceeds(i)
    \/ SendSucceeds(i)
    \/ \E kind \in FailKinds : InitFails(i, kind) \/ SendFails(i, kind)

\* The initialize effect called initializeChat in this step: the view opened
\* with hasInitialized.current false, or after a switch had reset it.
InitializeChatCalled ==
    Opens /\ (~hasInitialized \/ IsSwitch(currentRedFlagRule', currentRedFlagRule))

(* C2: the transcripts of the rules are isolated: the response of a request    *)
(* issued in one rule's conversation never changes the transcript while it is  *)
(* the transcript of another rule.                                             *)
C2_IsolatedTranscripts ==
    [][\A i \in 1..Len(inflight) :
          (inflight[i].conv # currentRedFlagRule /\ Completes(i))
              => messages' = messages]_vars

(* C3: every chat request carries the red flag that is active when it is       *)
(* issued and the application data current at that time.                       *)
C3_RequestCarriesCurrent ==
    [][RequestIssued =>
          /\ NewRequest.redFlag = RedFlagProp(activeRedFlag')
          /\ NewRequest.applicationData = formData']_vars

(* C4: a failed initializeChat leaves the transcript and the initialized flag  *)
(* as they were and records an error; an initializeChat call made while the    *)
(* conversation is not initialized issues a bootstrap request.                 *)
C4_InitFailureRetryable ==
    [][/\ \A i \in 1..Len(inflight), kind \in FailKinds :
            InitFails(i, kind) =>
                /\ messages' = messages
                /\ isInitialized' = isInitialized
                /\ isInitializedRef' = isInitializedRef
                /\ ~isInitialized => ~isInitializedRef'
                /\ error' # NoError
       /\ (InitializeChatCalled /\ ~isInitializedRef') =>
                /\ RequestIssued
                /\ NewRequest.kind = "init"]_vars

\* An initialization has failed: nothing in the transcript, not initialized.
C4_Witness ==
    /\ error = InitErrorMessage("timeout")
    /\ messages = <<>>
    /\ ~isInitialized
    /\ ~isInitializedRef
    /\ inflight = <<>>

(* C5: a successful initializeChat leaves exactly one message, the assistant's *)
(* first message, whatever attempts failed before; an initializeChat call made *)
(* after a success issues no request and leaves the transcript unchanged.      *)
C5_SingleFirstMessage ==
    [][/\ \A i \in 1..Len(inflight) :
            InitSucceeds(i) =>
                /\ messages' = <<ChatMessage("assistant", ReplyContent)>>
                /\ isInitialized'
       /\ (InitializeChatCalled /\ isInitializedRef') =>
                /\ inflight' = inflight
                /\ messages' = messages]_vars

\* One attempt has failed and one has succeeded: a single assistant message.
C5_Witness ==
    /\ error = InitErrorMessage("status")
    /\ isInitialized
    /\ Len(messages) = 1
    /\ IsAssistantMessage(messages[1])

(* C6: after a send whose request fails, the text the user typed is still in   *)
(* the transcript as a user message or in the input box.                       *)
C6_InputNotDropped ==
    [][\A i \in 1..Len(inflight), kind \in FailKinds :
          SendFails(i, kind) =>
              \/ \E k \in 1..Len(messages') :
                    IsUserMessage(messages'[k], inflight[i].message)
              \/ inputValue' = inflight[i].message]_vars

(* C7: when a sendMessage request fails, error becomes non-null and isLoading  *)
(* false; the next sendMessage clears the error and issues a new request.      *)
C7_FailedSendRecoverable ==
    [][/\ \A i \in 1..Len(inflight), kind \in FailKinds :
            SendFails(i, kind) => (error' # NoError /\ ~isLoading')
       /\ (handleSendMessage /\ ~handleSendMessageReturnsEarly) =>
                /\ error' = NoError
                /\ RequestIssued
                /\ NewRequest.kind = "send"]_vars

\* A send has failed: the error is shown and the input is enabled.
C7_Witness ==
    /\ isOpen
    /\ error = SendErrorMessage("http")
    /\ ~isLoading
    /\ inflight = <<>>
    /\ isInitialized

(* C8: at most one sendMessage request of a conversation awaits its response.  *)
C8_SingleFlight ==
    \A i, j \in 1..Len(inflight) :
        (i < j /\ inflight[i].kind = "send" /\ inflight[j].kind = "send")
            => inflight[i].conv # inflight[j].conv

C10_ReopenResumes ==
    [][ReopensSameFlag => (messages' = messages /\ ~RequestIssued)]_vars

-----------------------------------------------------------------------------
\* Fix It on rule r makes the save/restore effect take its restore branch: a
\* switch to a rule whose transcript was saved when it was left.
RestoreMessagesCalled(r) ==
    /\ FixIt(r)
    /\ r # RedFlagProp(activeRedFlag).rule
    /\ IsSwitch(r, currentRedFlagRule)
    /\ HasSavedConversation(conversationHistory, r)

(* C11: switching back to a rule that was left with a non-empty transcript     *)
(* shows exactly the message sequence the rule had when it was left.           *)
C11_SwitchBackRestores ==
    [][\A r \in RuleIds :
          RestoreMessagesCalled(r) =>
              /\ ~crashed'
              /\ isOpen'
              /\ messages' = conversationHistory[r]]_vars

(* C12: a restore marks the engine as initialized: the step that restores      *)
(* leaves the initialized flag set and issues no bootstrap request, and the    *)
(* transcript is the restored one.                                             *)
C12_RestoreMarksInitialized ==
    [][\A r \in RuleIds :
          RestoreMessagesCalled(r) =>
              /\ ~crashed'
              /\ isInitializedRef'
              /\ hasInitialized'
              /\ ~RequestIssued
              /\ messages' # <<>>]_vars

-----------------------------------------------------------------------------
\* Fix It on rule r makes the save/restore effect take its reset branch: a
\* switch to a rule without a saved transcript.
ResetCalled(r) ==
    /\ FixIt(r)
    /\ r # RedFlagProp(activeRedFlag).rule
    /\ IsSwitch(r, currentRedFlagRule)
    /\ ~HasSavedConversation(conversationHistory, r)

(* C13: reset() leaves the conversation uninitialized whatever state it was    *)
(* in: empty transcript, no error, initialized flag false; isLoading is false  *)
(* unless an initializeChat follows in the same step, and that initializeChat  *)
(* issues a bootstrap request.                                                 *)
C13_ResetUninitialized ==
    [][\A r \in RuleIds :
          ResetCalled(r) =>
              /\ ~crashed'
              /\ messages' = <<>>
              /\ messagesRef' = <<>>
              /\ error' = NoError
              /\ ~isInitialized'
              /\ ~isInitializedRef'
              /\ IF InitializeChatCalled
                 THEN /\ RequestIssued
                      /\ NewRequest = BootstrapRequest(r)
                 ELSE /\ ~isLoading'
                      /\ inflight' = inflight]_vars

\* reset() has run on an initialized conversation: the view shows another rule,
\* nothing is initialized and the transcript that was left is in the history.
C13_Witness ==
    /\ isOpen
    /\ ~crashed
    /\ ~hasInitialized
    /\ messages = <<>>
    /\ ~isInitialized
    /\ ~isInitializedRef
    /\ ~isLoading
    /\ \E r \in RuleIds : conversationHistory[r] # <<>>

-----------------------------------------------------------------------------
(* C14: a sendMessage made while the conversation is not initialized is a      *)
(* no-op: it issues no request and leaves the transcript unchanged.            *)
C14_SendNeedsInitialized ==
    [][(handleSendMessage /\ ~isInitialized) =>
          /\ inflight' = inflight
          /\ messages' = messages]_vars

-----------------------------------------------------------------------------
(* C15: the conversationHistory of every sendMessage request is the complete   *)
(* transcript held at the time of the call followed by the new user message,   *)
(* and it is the transcript held after the call.                               *)
C15_PayloadIsTranscript ==
    [][SendMessageAccepted =>
          /\ NewRequest.kind = "send"
          /\ NewRequest.message = inputValue
          /\ NewRequest.conversationHistory =
                Append(messages, ChatMessage("user", inputValue))
          /\ NewRequest.conversationHistory = messages']_vars

\* A send request is in flight whose payload holds the assistant's first
\* message followed by the user message of the turn.
C15_Witness ==
    \E i \in 1..Len(inflight) :
        /\ inflight[i].kind = "send"
        /\ Len(inflight[i].conversationHistory) = 2
        /\ IsAssistantMessage(inflight[i].conversationHistory[1])
        /\ IsUserMessage(inflight[i].conversationHistory[2], inflight[i].message)
        /\ messages = inflight[i].conversationHistory

-----------------------------------------------------------------------------
\* A step of the chat: a view opened or switched, closed, a message sent, a
\* response handled.
ChatStep ==
    \/ \E r \in RuleIds : FixIt(r)
    \/ \E confirmed \in BOOLEAN, submits \in BOOLEAN : handleClose(confirmed, submits)
    \/ \E text \in InputTexts : setInputValue(text)
    \/ handleSendMessage
    \/ \E i \in 1..Len(inflight) : Completes(i)

(* C16: initializeChat, sendMessage, reset, the saving and restoring of        *)
(* transcripts and the arrival of a chat response leave the form data as it    *)
(* is: the field values are unchanged and no justifications or correctedFields *)
(* appear.                                                                     *)
C16_ChatLeavesSnapshot ==
    [][(formData' # formData \/ DOMAIN formData' # Fields) => ~ChatStep]_vars

\* A turn has been answered while the form holds a value the user typed.
C16_Witness ==
    /\ formData # InitialFormData
    /\ Len(messages) = 3
    /\ IsUserMessage(messages[2], <<"h", "i">>)
    /\ IsAssistantMessage(messages[3])

(* C17: when a turn ends with Update{field, value}, the form data held by the  *)
(* caller has value as the field's live value and correctedFields[field] =     *)
(* {oldValue: the value before the turn, newValue: value}.                     *)
C17_UpdateCommitted ==
    [][\A i \in 1..Len(inflight), f \in Fields, v \in FieldValues :
          SendSucceedsWith(i, Update(f, v)) =>
              /\ formData'[f] = v
              /\ "correctedFields" \in DOMAIN formData'
              /\ formData'.correctedFields[f] =
                    [oldValue |-> formData[f], newValue |-> v]]_vars

(* C18: when a turn ends with Update{field, v} on a field that an earlier      *)
(* update has already set to v, correctedFields[field] keeps the oldValue it   *)
(* had; in any case it exists after the turn, with newValue v and an oldValue  *)
(* other than v.                                                               *)
C18_UpdateIdempotent ==
    [][\A i \in 1..Len(inflight), f \in Fields, v \in FieldValues :
          SendSucceedsWith(i, Update(f, v)) =>
              /\ "correctedFields" \in DOMAIN formData'
              /\ formData'.correctedFields[f].newValue = v
              /\ formData'.correctedFields[f].oldValue # v
              /\ ("correctedFields" \in DOMAIN formData
                    /\ formData.correctedFields[f].newValue = v)
                  => formData'.correctedFields[f] = formData.correctedFields[f]]_vars

-----------------------------------------------------------------------------
(* C19: within one turn the tool round-trips never exceed the bound, counted   *)
(* by the engine and counted in the transcript; a tool request made when the   *)
(* bound is reached ends the turn with an AskMore and the conversation awaits  *)
(* the user's reply again.                                                     *)
C19_ToolRoundsBounded ==
    [][/\ toolRounds' <= MaxToolRounds
       /\ ToolNotesOfTurn(engineTranscript') <= MaxToolRounds
       /\ \A success \in BOOLEAN :
            (ModelRequestsTool(success) /\ toolRounds = MaxToolRounds) =>
                /\ engineOutcome'.type = "ask_more"
                /\ engineState' = "AwaitingUserReply"
                /\ engineTranscript' = Append(engineTranscript, "assistant")]_vars

\* A turn with as many tool round-trips as the bound allows has ended with the
\* fallback question.
C19_Witness ==
    /\ engineOutcome = Outcome("ask_more", TRUE)
    /\ toolRounds = MaxToolRounds
    /\ ToolNotesOfTurn(engineTranscript) = MaxToolRounds
    /\ engineState = "AwaitingUserReply"

-----------------------------------------------------------------------------
\* The user turns of a transcript, in order, with one space between each two.
RECURSIVE C20_Explanation(_)
C20_Explanation(transcript) ==
    IF transcript = <<>> THEN EmptyText
    ELSE LET last == transcript[Len(transcript)]
             before == SliceDropLast(transcript)
         IN  IF last.role # "user" THEN C20_Explanation(before)
             ELSE IF \A k \in 1..Len(before) : before[k].role # "user"
                  THEN last.content
                  ELSE C20_Explanation(before) \o <<" ">> \o last.content

(* C20: whenever the pre-screening conversation is saved, the explanation     *)
(* handed to MockForm is the contents of the transcript's user messages, in   *)
(* order, joined by single spaces, the chat history handed over is the whole  *)
(* transcript, and MockForm stores both as they are.                          *)
C20_ExplanationIsUserTurns ==
    [][\A i \in 1..Len(sectionInflight) :
          handleSendSucceeds(i) =>
              /\ preScreeningData'.explanation = C20_Explanation(sectionMessages')
              /\ preScreeningData'.chatHistory = sectionMessages'
              /\ preScreeningData'.answered
              /\ preScreeningData'.response = "yes"]_vars

\* A conversation of two user messages, the first of which got no reply, has
\* been saved.
C20_Witness ==
    /\ preScreeningData.response = "yes"
    /\ Len(preScreeningData.chatHistory) = 5
    /\ preScreeningData.chatHistory = sectionMessages
    /\ preScreeningData.chatHistory[3].content = SectionErrorContent
    /\ preScreeningData.explanation = <<"a", " ", "b", " ">>

-----------------------------------------------------------------------------
(* C21: when the opening question was asked once and the user answered once,   *)
(* the conversation is saved with the answer as the explanation and with a     *)
(* transcript of exactly 2 entries: the assistant's question and the user's    *)
(* answer.                                                                     *)
C21_OneAnswerTwoEntries ==
    [][\A i \in 1..Len(sectionInflight) :
          (/\ handleSendSucceeds(i)
           /\ Len(sectionMessages) = 2
           /\ sectionMessages[1] = ChatMessage("assistant", FirstQuestionContent)
           /\ sectionMessages[2].role = "user") =>
              /\ preScreeningData'.explanation = sectionMessages[2].content
              /\ Len(preScreeningData'.chatHistory) = 2
              /\ preScreeningData'.chatHistory = sectionMessages]_vars

-----------------------------------------------------------------------------
(* C22: after a successful validation response every rule has status fail and  *)
(* the response's red flag exactly when the response holds a red flag of that  *)
(* rule, and status pass without a red flag otherwise; a failed validation     *)
(* request leaves every rule as it was; either way isSubmitting ends false.    *)
C22_RulesReflectResponse ==
    [][/\ \A flags \in SUBSET RuleIds :
            ValidationSucceeds(flags) =>
                /\ \A r \in RuleIds :
                      /\ r \in flags =>
                            /\ rules'[r].status = "fail"
                            /\ rules'[r].redFlag = RedFlag(r)
                      /\ r \notin flags =>
                            /\ rules'[r].status = "pass"
                            /\ rules'[r].redFlag = NoFlag
                /\ ~isSubmitting'
       /\ ValidationFails =>
                /\ rules' = rules
                /\ ~isSubmitting']_vars

\* A later response has turned a failing rule into a passing one and another
\* rule into a failing one.
C22_Witness ==
    /\ ~crashed
    /\ ~isSubmitting
    /\ validations = 0
    /\ rules["distance_check"].status = "fail"
    /\ rules["distance_check"].redFlag = RedFlag("distance_check")
    /\ rules["employer_verification_check"].status = "pass"
    /\ rules["employer_verification_check"].redFlag = NoFlag
    /\ activeRedFlag = RedFlag("employer_verification_check")

-----------------------------------------------------------------------------
(* C23: the rollback of a failed sendMessage request removes nothing but the   *)
(* user message that this request appended: the message it drops is the last   *)
(* of the transcript, is the request's user message, and belongs to the        *)
(* conversation the request was issued in.                                     *)
C23_RollbackRemovesOwnMessage ==
    [][\A i \in 1..Len(inflight), kind \in FailKinds :
          SendFails(i, kind) =>
              \/ messages' = messages
              \/ /\ inflight[i].conv = currentRedFlagRule
                 /\ messages # <<>>
                 /\ IsUserMessage(messages[Len(messages)], inflight[i].message)
                 /\ messages' = SliceDropLast(messages)]_vars

-----------------------------------------------------------------------------
(* C24: isLoading is true in every state in which a chat request of the hook,  *)
(* bootstrap or message, is still awaiting its response.                       *)
C24_LoadingWhilePending ==
    (~crashed /\ inflight # <<>>) => isLoading

-----------------------------------------------------------------------------
(* C25: when the bootstrap request of a flag's conversation has failed and no  *)
(* chat request is pending, closing the view and reopening the same flag       *)
(* issues a new bootstrap request.                                             *)
C25_ReopenRetriesInit ==
    [][(/\ ReopensSameFlag
        /\ ~isInitializedRef
        /\ messages = <<>>
        /\ error \in {InitErrorMessage(kind) : kind \in FailKinds}
        /\ inflight = <<>>) =>
            /\ RequestIssued
            /\ NewRequest.kind = "init"]_vars

-----------------------------------------------------------------------------
(* C26: whenever a conversation is open, its red flag is the recorded red flag *)
(* of a rule whose current status is fail.                                     *)
C26_OpenFlagIsFailing ==
    (isOpen /\ ~crashed) =>
        /\ activeRedFlag.rule \in RuleIds
        /\ rules[activeRedFlag.rule].status = "fail"
        /\ rules[activeRedFlag.rule].redFlag = activeRedFlag

-----------------------------------------------------------------------------
\* The text holds the part as a contiguous piece.
C27_Contains(text, part) ==
    \/ part = EmptyText
    \/ \E a \in 1..Len(text), b \in 1..Len(text) : SubSeq(text, a, b) = part

(* C27: a failed request of the pre-screening chat removes nothing: after it   *)
(* the transcript is the transcript before the turn plus the user's message    *)
(* and the assistant's error notice, nothing is saved by it, and at the next   *)
(* save the explanation still holds the text of every failed turn.             *)
C27_FailedTurnKept ==
    [][\A i \in 1..Len(sectionInflight) :
          LET request == sectionInflight[i]
          IN  /\ handleSendFails(i) =>
                    /\ sectionMessages' =
                          request.conversationHistory
                              \o <<ChatMessage("user", request.message),
                                   ChatMessage("assistant", SectionErrorContent)>>
                    /\ Len(sectionMessages') = Len(request.conversationHistory) + 2
                    /\ preScreeningData' = preScreeningData
              /\ handleSendSucceeds(i) =>
                    \A k \in 1..(Len(sectionMessages') - 1) :
                        (/\ sectionMessages'[k].role = "user"
                         /\ sectionMessages'[k + 1] =
                                ChatMessage("assistant", SectionErrorContent)) =>
                            C27_Contains(preScreeningData'.explanation,
                                         sectionMessages'[k].content)]_vars

\* A turn has failed and the next one has been saved.
C27_Witness ==
    /\ Len(sectionMessages) = 5
    /\ sectionMessages[2] = ChatMessage("user", <<"b", " ">>)
    /\ sectionMessages[3] = ChatMessage("assistant", SectionErrorContent)
    /\ sectionMessages[4] = ChatMessage("user", <<"a">>)
    /\ sectionMessages[5] = ChatMessage("assistant", ReplyContent)
    /\ preScreeningData.explanation = <<"b", " ", " ", "a">>
    /\ ~sectionIsLoading

-----------------------------------------------------------------------------
\* The step submits the form: a validation request is issued.
FormSubmitted == validations' = validations + 1

(* C28: once the user has chosen "Yes" in the pre-screening section, no form   *)
(* submission sends a pre-screening payload whose response is "no".            *)
C28_NoPayloadAfterYes ==
    [][(showChat /\ FormSubmitted) =>
          LET payload == PreScreeningPayload(preScreeningData)
          IN  payload # NoPreScreening => payload.response # "no"]_vars

-----------------------------------------------------------------------------
(* C29: the pre-screening transcript, in the section and as saved in the form, *)
(* is empty or starts with the opening question as an assistant message, and   *)
(* the question occurs in it only there; the chat is never shown with an       *)
(* empty transcript.                                                           *)
C29_OpeningQuestionOnce ==
    /\ \A t \in {sectionMessages, preScreeningData.chatHistory} :
          t # <<>> =>
              /\ t[1] = ChatMessage("assistant", FirstQuestionContent)
              /\ \A k \in 2..Len(t) : t[k].content # FirstQuestionContent
    /\ showChat => sectionMessages # <<>>

\* The chat was opened after a No click, and a conversation of two turns has
\* been saved.
C29_Witness ==
    /\ showChat
    /\ Len(sectionMessages) = 5
    /\ sectionMessages[4].role = "user"
    /\ preScreeningData.chatHistory = sectionMessages
    /\ sectionMessages[1] = ChatMessage("assistant", FirstQuestionContent)
    /\ isSubmitting

-----------------------------------------------------------------------------
(* C30: sending a text that is empty or consists of white space only is a      *)
(* no-op: no request is issued and the transcript, the error and isLoading     *)
(* stay as they are.                                                           *)
C30_BlankSendIsNoOp ==
    [][(/\ handleSendMessage
        /\ \A k \in 1..Len(inputValue) : inputValue[k] = " ") =>
            /\ inflight' = inflight
            /\ messages' = messages
            /\ messagesRef' = messagesRef
            /\ error' = error
            /\ isLoading' = isLoading]_vars

\* White space is in the input of an initialized, idle conversation that shows
\* an error: Enter would send it.
C30_Witness ==
    /\ isOpen
    /\ ~crashed
    /\ inputValue = <<" ">>
    /\ ~isLoading
    /\ isInitialized
    /\ error # NoError
    /\ Len(messages) = 1
    /\ inflight = <<>>

====
